---- MODULE Spec2Model ----
(***************************************************************************)
(* Model of filament's fg2 FrameGraph: the setup phase (passes, virtual    *)
(* resources, versioned ResourceNodes, read/write edges), compile()        *)
(* (culling, first/last users, usage resolution) and execute().            *)
(*                                                                         *)
(* Indices are 1-based here where the C++ vectors are 0-based; index 0     *)
(* stands for nullptr / "none", and a handle with index 0 is the           *)
(* uninitialized FrameGraphHandle.                                         *)
(*                                                                         *)
(* The application is any sequence of calls with these shapes: resources   *)
(* are imported before the first pass is added and created from the setup  *)
(* callback of a pass; a read asks for SAMPLEABLE and a write for          *)
(* COLOR_ATTACHMENT; a handle passed to read/write/createSubresource is    *)
(* one the application was handed before, or the uninitialized handle.     *)
(* Render targets (declareRenderTarget, PassNode::resolve) are left out.   *)
(*                                                                         *)
(* Spec is one frame: setup, compile(), execute().  SpecFrames is two      *)
(* frames on one FrameGraph: the calls of the first frame are recorded     *)
(* and made again, one by one, after execute() has returned.  SpecWrites   *)
(* is one frame without sub-resources in which a write asks for            *)
(* COLOR_ATTACHMENT or for DEPTH_ATTACHMENT.                               *)
(***************************************************************************)
EXTENDS Naturals, Sequences, FiniteSets

\* ---------------------------------------------------------------- bounds
MaxPasses == 3
MaxResources == 2
MaxNodes == 3
MaxEdges == 3
\* the calls of the setup of a frame that is declared twice
MaxScript == 6

\* Texture::Usage is a bitset; a usage is modelled as the set of its bits.
SAMPLEABLE == "SAMPLEABLE"
COLOR_ATTACHMENT == "COLOR_ATTACHMENT"
DEPTH_ATTACHMENT == "DEPTH_ATTACHMENT"
\* the usages a pass asks for in read() and in write()
ReadUsages == {{SAMPLEABLE}}
WriteUsages == {{COLOR_ATTACHMENT}}
\* the usages a pass asks for in write() when it writes depth as well
DepthWriteUsages == WriteUsages \cup {{DEPTH_ATTACHMENT}}
\* the usages a resource is imported with
ImportedUsages == {{SAMPLEABLE}, {COLOR_ATTACHMENT}}

VARIABLES
    mPassNodes,      \* FrameGraph::mPassNodes
    mResources,      \* FrameGraph::mResources
    mResourceSlots,  \* FrameGraph::mResourceSlots
    mResourceNodes,  \* FrameGraph::mResourceNodes
    mEdges,          \* the edges linked into FrameGraph::mGraph
    phase,           \* "setup", "compiled" (compile() returned), "done" (execute() returned)
    builder,         \* the pass whose setup callback is running, 0 when none
    held,            \* the handles the application was handed so far
    issued,          \* per slot: the handle of create/import, then the handles the
                     \* successful writes applied to the previous one returned
    ret,             \* the last call: its handle argument, the handle readInternal or
                     \* writeInternal returned, and whether an edge was connected
    log,             \* the calls made on the driver, the allocator and the executors
    frame,           \* the frame being declared on this FrameGraph: 1, then 2
    script,          \* the calls of the setup of the first frame, when they are recorded
    pos,             \* the number of calls of the script made again in the second frame
    outcome          \* what compile() computed in the first frame

vars == <<mPassNodes, mResources, mResourceSlots, mResourceNodes, mEdges,
          phase, builder, held, issued, ret, log, frame, script, pos, outcome>>

frameVars == <<frame, script, pos, outcome>>

\* ------------------------------------------------------------- helpers
\* FrameGraphHandle{} : not initialized
Uninitialized == [index |-> 0, version |-> 0]

FrameGraphHandle(i) == [index |-> i, version |-> 0]

isInitialized(handle) == handle.index # 0

\* references to the nodes of the dependency graph. reset() leaves mGraph
\* alone, so the nodes of a second frame are registered after those of the
\* first and get ids of their own: the frame is part of the reference.
PassRef(p) == <<"pass", p, frame>>
NodeRef(n) == <<"resource", n, frame>>

\* FrameGraph::getResourceSlot / getResource / getResourceNode
getResourceSlot(handle) == mResourceSlots[handle.index]
getResource(handle) == getResourceSlot(handle).rid
getResourceNode(handle) == getResourceSlot(handle).nid

\* VirtualResource::isSubResource
isSubResource(resources, r) == resources[r].parent # r

\* ResourceNode::hasWriter
hasWriter(n) == mResourceNodes[n].writer # 0

\* FrameGraph::isValid
isValid(handle) ==
    IF ~isInitialized(handle) THEN FALSE
    ELSE IF handle.version # mResources[getResource(handle)].version THEN FALSE
    ELSE TRUE

\* assertValid that accepts every initialized handle, whatever its version
assertValidInitializedOnly(handle) == isInitialized(handle)

\* FrameGraph::assertValid (the precondition is non fatal: it only reports)
assertValid(handle) == isValid(handle)

\* the constructors
NewPassNode(isPresent) ==
    [present |-> isPresent, target |-> FALSE, refCount |-> 0, culled |-> FALSE]

NewResource(self, parentRes, isImported, u) ==
    [parent |-> IF parentRes = 0 THEN self ELSE parentRes,
     imported |-> isImported, version |-> 0, refcount |-> 0,
     first |-> 0, last |-> 0, usage |-> u]

NewResourceNode(handle) ==
    [resourceHandle |-> handle, writer |-> 0, readers |-> <<>>, parent |-> 0,
     refCount |-> 0, culled |-> FALSE]

Call(op, h, r, connected) == [op |-> op, h |-> h, r |-> r, ok |-> connected]

\* what compile() computed: the culled passes and, per resource, first, last
\* and usage
Outcome(passes, resources) ==
    [culled |-> {p \in 1..Len(passes) : passes[p].culled},
     first |-> [r \in 1..Len(resources) |-> resources[r].first],
     last |-> [r \in 1..Len(resources) |-> resources[r].last],
     usage |-> [r \in 1..Len(resources) |-> resources[r].usage]]

NoOutcome == Outcome(<<>>, <<>>)

\* ---------------------------------------------------------------- Init
Init ==
    /\ mPassNodes = <<>>
    /\ mResources = <<>>
    /\ mResourceSlots = <<>>
    /\ mResourceNodes = <<>>
    /\ mEdges = <<>>
    /\ phase = "setup"
    /\ builder = 0
    /\ held = {}
    /\ issued = <<>>
    /\ ret = Call("new", Uninitialized, Uninitialized, TRUE)
    /\ log = <<>>
    /\ frame = 1
    /\ script = <<>>
    /\ pos = 0
    /\ outcome = NoOutcome

\* ------------------------------------------------------- setup: passes
\* FrameGraph::addPass -> addPassInternal, then the setup callback runs
addPass ==
    /\ phase = "setup" /\ builder = 0
    /\ Len(mPassNodes) < MaxPasses
    /\ mPassNodes' = Append(mPassNodes, NewPassNode(FALSE))
    /\ builder' = Len(mPassNodes) + 1
    /\ ret' = Call("addPass", Uninitialized, Uninitialized, TRUE)
    /\ UNCHANGED <<mResources, mResourceSlots, mResourceNodes, mEdges, phase, held, issued, log>>

\* FrameGraph::addPresentPass up to the call of the setup callback
addPresentPass ==
    /\ phase = "setup" /\ builder = 0
    /\ Len(mPassNodes) < MaxPasses
    /\ mPassNodes' = Append(mPassNodes, NewPassNode(TRUE))
    /\ builder' = Len(mPassNodes) + 1
    /\ ret' = Call("addPresentPass", Uninitialized, Uninitialized, TRUE)
    /\ UNCHANGED <<mResources, mResourceSlots, mResourceNodes, mEdges, phase, held, issued, log>>

\* DependencyGraph::Node::makeTarget
makeTarget(passes, p) == [passes EXCEPT ![p].target = TRUE]

\* FrameGraph::Builder::sideEffect
sideEffect ==
    /\ phase = "setup" /\ builder # 0
    /\ ~mPassNodes[builder].present /\ ~mPassNodes[builder].target
    /\ mPassNodes' = makeTarget(mPassNodes, builder)
    /\ ret' = Call("sideEffect", Uninitialized, Uninitialized, TRUE)
    /\ UNCHANGED <<mResources, mResourceSlots, mResourceNodes, mEdges, phase, builder,
                   held, issued, log>>

\* the end of a setup callback after which addPresentPass marks no target
endSetupNoSideEffect ==
    /\ phase = "setup" /\ builder # 0
    /\ builder' = 0
    /\ ret' = Call("endSetup", Uninitialized, Uninitialized, TRUE)
    /\ UNCHANGED <<mPassNodes, mResources, mResourceSlots, mResourceNodes, mEdges, phase,
                   held, issued, log>>

\* the setup callback returns; addPresentPass then calls builder.sideEffect()
endSetup ==
    /\ phase = "setup" /\ builder # 0
    /\ mPassNodes' = IF mPassNodes[builder].present
                     THEN makeTarget(mPassNodes, builder) ELSE mPassNodes
    /\ builder' = 0
    /\ ret' = Call("endSetup", Uninitialized, Uninitialized, TRUE)
    /\ UNCHANGED <<mResources, mResourceSlots, mResourceNodes, mEdges, phase, held, issued, log>>

\* ---------------------------------------------------- setup: resources
\* FrameGraph::addResourceInternal: a slot, the resource and its first node
addResourceInternal(resource) ==
    LET handle == FrameGraphHandle(Len(mResourceSlots) + 1)
        slot == [rid |-> Len(mResources) + 1, nid |-> Len(mResourceNodes) + 1]
    IN [handle |-> handle,
        slots |-> Append(mResourceSlots, slot),
        resources |-> Append(mResources, resource),
        nodes |-> Append(mResourceNodes, NewResourceNode(handle))]

\* FrameGraph::addSubResourceInternal: the new node points to the parent's current node
addSubResourceInternal(parent, resource) ==
    LET a == addResourceInternal(resource)
        pParentNode == getResourceNode(parent)
        pNode == a.slots[a.handle.index].nid
    IN [a EXCEPT !.nodes = [a.nodes EXCEPT ![pNode].parent = pParentNode]]

\* the resources a frame can declare: one more when its calls are recorded,
\* where the length of the script bounds the declarations
ResourceBound == IF script = <<>> THEN MaxResources ELSE MaxResources + 1

\* FrameGraph::create, reached through Builder::create in a setup callback
create ==
    /\ phase = "setup" /\ builder # 0
    /\ Len(mResources) < ResourceBound /\ Len(mResourceNodes) < MaxNodes
    /\ LET a == addResourceInternal(NewResource(Len(mResources) + 1, 0, FALSE, {}))
       IN /\ mResourceSlots' = a.slots
          /\ mResources' = a.resources
          /\ mResourceNodes' = a.nodes
          /\ held' = held \cup {a.handle}
          /\ issued' = Append(issued, <<a.handle>>)
          /\ ret' = Call("create", Uninitialized, a.handle, TRUE)
    /\ UNCHANGED <<mPassNodes, mEdges, phase, builder, log>>

\* FrameGraph::createSubresource, reached through Builder::createSubresource
createSubresource(parent) ==
    /\ phase = "setup" /\ builder # 0
    /\ Len(mResources) < ResourceBound /\ Len(mResourceNodes) < MaxNodes
    /\ isInitialized(parent)
    /\ LET a == addSubResourceInternal(parent,
                    NewResource(Len(mResources) + 1, getResource(parent), FALSE, {}))
       IN /\ mResourceSlots' = a.slots
          /\ mResources' = a.resources
          /\ mResourceNodes' = a.nodes
          /\ held' = held \cup {a.handle}
          /\ issued' = Append(issued, <<a.handle>>)
          /\ ret' = Call("createSubresource", parent, a.handle, TRUE)
    /\ UNCHANGED <<mPassNodes, mEdges, phase, builder, log>>

\* FrameGraph::import: an ImportedRenderTarget, constructed with its usage
import(u) ==
    /\ phase = "setup" /\ builder = 0 /\ mPassNodes = <<>>
    /\ Len(mResources) < ResourceBound /\ Len(mResourceNodes) < MaxNodes
    /\ LET a == addResourceInternal(NewResource(Len(mResources) + 1, 0, TRUE, u))
       IN /\ mResourceSlots' = a.slots
          /\ mResources' = a.resources
          /\ mResourceNodes' = a.nodes
          /\ held' = held \cup {a.handle}
          /\ issued' = Append(issued, <<a.handle>>)
          /\ ret' = Call("import", Uninitialized, a.handle, TRUE)
    /\ UNCHANGED <<mPassNodes, mEdges, phase, builder, log>>

\* --------------------------------------------------- setup: read/write
\* FrameGraph::readInternal
readInternal(handle) ==
    IF ~assertValid(handle)
    THEN [handle |-> Uninitialized, pNode |-> 0, pResource |-> 0]
    ELSE [handle |-> handle,
          pNode |-> getResourceSlot(handle).nid,
          pResource |-> getResourceSlot(handle).rid]

\* writeInternal that makes a new version even when the node has no writer
writeInternalAlwaysNewVersion(handle) ==
    IF ~assertValid(handle)
    THEN [handle |-> Uninitialized, pNode |-> 0, pResource |-> 0,
          slots |-> mResourceSlots, nodes |-> mResourceNodes, resources |-> mResources]
    ELSE
      LET slot == getResourceSlot(handle)
          next == [handle EXCEPT !.version = handle.version + 1]
          nid == Len(mResourceNodes) + 1
      IN [handle |-> next, pNode |-> nid, pResource |-> slot.rid,
          slots |-> [mResourceSlots EXCEPT ![handle.index].nid = nid],
          nodes |-> Append(mResourceNodes, NewResourceNode(next)),
          resources |-> [mResources EXCEPT ![slot.rid].version = next.version]]

\* writeInternal that rebinds rid along with nid
writeInternalRebindsRid(handle) ==
    IF ~assertValid(handle)
    THEN [handle |-> Uninitialized, pNode |-> 0, pResource |-> 0,
          slots |-> mResourceSlots, nodes |-> mResourceNodes, resources |-> mResources]
    ELSE
      LET slot == getResourceSlot(handle)
      IN IF ~hasWriter(slot.nid)
         THEN [handle |-> handle, pNode |-> slot.nid, pResource |-> slot.rid,
               slots |-> mResourceSlots, nodes |-> mResourceNodes,
               resources |-> mResources]
         ELSE
           LET next == [handle EXCEPT !.version = handle.version + 1]
               nid == Len(mResourceNodes) + 1
           IN [handle |-> next, pNode |-> nid, pResource |-> slot.rid,
               slots |-> [mResourceSlots EXCEPT ![handle.index] =
                             [rid |-> Len(mResources), nid |-> nid]],
               nodes |-> Append(mResourceNodes, NewResourceNode(next)),
               resources |-> [mResources EXCEPT ![slot.rid].version = next.version]]

\* writeInternal that hands the current node to every writer
writeInternalNeverNewVersion(handle) ==
    IF ~assertValid(handle)
    THEN [handle |-> Uninitialized, pNode |-> 0, pResource |-> 0,
          slots |-> mResourceSlots, nodes |-> mResourceNodes, resources |-> mResources]
    ELSE
      LET slot == getResourceSlot(handle)
      IN [handle |-> handle, pNode |-> slot.nid, pResource |-> slot.rid,
          slots |-> mResourceSlots, nodes |-> mResourceNodes,
          resources |-> mResources]

\* FrameGraph::writeInternal
writeInternal(handle) ==
    IF ~assertValid(handle)
    THEN [handle |-> Uninitialized, pNode |-> 0, pResource |-> 0,
          slots |-> mResourceSlots, nodes |-> mResourceNodes, resources |-> mResources]
    ELSE
      LET slot == getResourceSlot(handle)
      IN IF ~hasWriter(slot.nid)
         THEN \* the resource was just created and was never written to
              [handle |-> handle, pNode |-> slot.nid, pResource |-> slot.rid,
               slots |-> mResourceSlots, nodes |-> mResourceNodes,
               resources |-> mResources]
         ELSE
           LET next == [handle EXCEPT !.version = handle.version + 1]
               nid == Len(mResourceNodes) + 1
           IN [handle |-> next, pNode |-> nid, pResource |-> slot.rid,
               slots |-> [mResourceSlots EXCEPT ![handle.index].nid = nid],
               nodes |-> Append(mResourceNodes, NewResourceNode(next)),
               resources |-> [mResources EXCEPT ![slot.rid].version = next.version]]

\* connect of an imported resource without the precondition on the usage
usageAvailableAlways(resources, r, u) == TRUE

\* ImportedResource::connect, both overloads: the precondition on the usage
usageAvailable(resources, r, u) ==
    resources[r].imported => u \subseteq resources[r].usage

\* DependencyGraph::link fails with AlreadyCulled once cull() has run on the
\* graph: compile() of the first frame ran it and reset() does not clear mGraph
AlreadyCulled == frame > 1

\* the ResourceEdges made in the frame being declared
EdgeCount == Cardinality({e \in 1..Len(mEdges) : mEdges[e].from[3] = frame})

\* Resource::connect(graph, passNode, resourceNode, u): a write edge, linked
\* into the graph and stored as the node's writer (setIncomingEdge)
connectWrite(nodes, p, n, u) ==
    [edges |-> Append(mEdges, [from |-> PassRef(p), to |-> NodeRef(n), usage |-> u,
                               linked |-> ~AlreadyCulled]),
     nodes |-> [nodes EXCEPT ![n].writer = Len(mEdges) + 1]]

\* Resource::connect(graph, resourceNode, passNode, u): a read edge, linked
\* into the graph and added to the node's readers (addOutgoingEdge)
connectRead(nodes, n, p, u) ==
    [edges |-> Append(mEdges, [from |-> NodeRef(n), to |-> PassRef(p), usage |-> u,
                               linked |-> ~AlreadyCulled]),
     nodes |-> [nodes EXCEPT ![n].readers = Append(@, Len(mEdges) + 1)]]

\* FrameGraph::read, reached through Builder::read in a setup callback
read(handle, u) ==
    /\ phase = "setup" /\ builder # 0
    /\ EdgeCount < MaxEdges
    /\ LET r == readInternal(handle)
       IN IF ~isInitialized(r.handle)
          THEN /\ ret' = Call("read", handle, r.handle, FALSE)
               /\ UNCHANGED <<mResourceNodes, mEdges, held, issued>>
          ELSE IF ~usageAvailable(mResources, r.pResource, u)
          THEN /\ ret' = Call("read", handle, r.handle, FALSE)
               /\ UNCHANGED <<mResourceNodes, mEdges, held, issued>>
          ELSE LET c == connectRead(mResourceNodes, r.pNode, builder, u)
               IN /\ mEdges' = c.edges
                  /\ mResourceNodes' = c.nodes
                  /\ held' = held \cup {r.handle}
                  /\ UNCHANGED issued
                  /\ ret' = Call("read", handle, r.handle, TRUE)
    /\ UNCHANGED <<mPassNodes, mResources, mResourceSlots, phase, builder, log>>

\* FrameGraph::write, reached through Builder::write in a setup callback
write(handle, u) ==
    /\ phase = "setup" /\ builder # 0
    /\ EdgeCount < MaxEdges
    /\ LET w == writeInternal(handle)
       IN /\ Len(w.nodes) <= MaxNodes
          /\ mResourceSlots' = w.slots
          /\ mResources' = w.resources
          /\ IF ~isInitialized(w.handle)
             THEN /\ ret' = Call("write", handle, w.handle, FALSE)
                  /\ mResourceNodes' = w.nodes
                  /\ UNCHANGED <<mEdges, held, issued>>
             ELSE IF ~usageAvailable(w.resources, w.pResource, u)
             THEN /\ ret' = Call("write", handle, w.handle, FALSE)
                  /\ mResourceNodes' = w.nodes
                  /\ UNCHANGED <<mEdges, held, issued>>
             ELSE LET c == connectWrite(w.nodes, builder, w.pNode, u)
                  IN /\ mEdges' = c.edges
                     /\ mResourceNodes' = c.nodes
                     /\ held' = held \cup {w.handle}
                     /\ issued' = IF handle = issued[handle.index][Len(issued[handle.index])]
                                   THEN [issued EXCEPT ![handle.index] = Append(@, w.handle)]
                                   ELSE issued
                     /\ ret' = Call("write", handle, w.handle, TRUE)
    /\ UNCHANGED <<mPassNodes, phase, builder, log>>

\* ------------------------------------------------------------- compile
\* DependencyGraph::Edge::from / to
EdgesFrom(edges, ref) == {e \in 1..Len(edges) : edges[e].linked /\ edges[e].from = ref}
EdgesTo(edges, ref) == {e \in 1..Len(edges) : edges[e].linked /\ edges[e].to = ref}

\* DependencyGraph::getIncomingEdges / getOutgoingEdges, in the order they were linked
getIncomingEdges(edges, ref) == SelectSeq(edges, LAMBDA e : e.linked /\ e.to = ref)
getOutgoingEdges(edges, ref) == SelectSeq(edges, LAMBDA e : e.linked /\ e.from = ref)

GraphNodes(passes, nodes) ==
    {PassRef(p) : p \in 1..Len(passes)} \cup {NodeRef(n) : n \in 1..Len(nodes)}

\* the reference count of a graph node: its outgoing edges to nodes not culled
RefCount(edges, culled, g) ==
    Cardinality({e \in EdgesFrom(edges, g) : edges[e].to \notin culled})

\* the sweep of DependencyGraph::cull: remove a node whose reference count is
\* zero and which is no target, which decrements its predecessors, until none is left
RECURSIVE cullSweep(_, _, _, _)
cullSweep(edges, all, targets, culled) ==
    LET ready == {g \in all \ (targets \cup culled) : RefCount(edges, culled, g) = 0}
    IN IF ready = {} THEN culled
       ELSE cullSweep(edges, all, targets, culled \cup {CHOOSE g \in ready : TRUE})

\* DependencyGraph::cull
cull(passes, nodes, edges) ==
    LET all == GraphNodes(passes, nodes)
        targets == {PassRef(p) : p \in {q \in 1..Len(passes) : passes[q].target}}
        culled == cullSweep(edges, all, targets, {})
    IN [passes |-> [p \in 1..Len(passes) |->
                      [passes[p] EXCEPT !.refCount = RefCount(edges, culled, PassRef(p)),
                                        !.culled = PassRef(p) \in culled]],
        nodes |-> [n \in 1..Len(nodes) |->
                      [nodes[n] EXCEPT !.refCount = RefCount(edges, culled, NodeRef(n)),
                                       !.culled = NodeRef(n) \in culled]]]

\* DependencyGraph::Node::isCulled, of a pass and of a resource node
isCulled(passes, p) == passes[p].culled
isNodeCulled(nodes, n) == nodes[n].culled

\* DependencyGraph::isEdgeValid: both ends survived culling
isEdgeValid(passes, nodes, edge) ==
    LET alive(ref) == IF ref[1] = "pass" THEN ~isCulled(passes, ref[2])
                      ELSE ~isNodeCulled(nodes, ref[2])
    IN alive(edge.from) /\ alive(edge.to)

\* VirtualResource::neededByPass
neededByPass(resources, r, pNode) ==
    [resources EXCEPT ![r].refcount = @ + 1,
                      ![r].first = IF @ = 0 THEN pNode ELSE @,
                      ![r].last = pNode]

\* the resource a graph node of kind "resource" stands for:
\* getResource(pNode->resourceHandle)
ResourceOf(slots, nodes, n) == slots[nodes[n].resourceHandle.index].rid

\* one of the two loops of compile() over the edges of a pass
RECURSIVE neededByEdges(_, _, _, _, _)
neededByEdges(resources, slots, nodes, touched, pNode) ==
    IF touched = <<>> THEN resources
    ELSE neededByEdges(neededByPass(resources, ResourceOf(slots, nodes, Head(touched)), pNode),
                       slots, nodes, Tail(touched), pNode)

NodesOf(edgeSeq, end) ==
    [i \in 1..Len(edgeSeq) |-> IF end = "from" THEN edgeSeq[i].from[2] ELSE edgeSeq[i].to[2]]

\* the loop of compile() without the loop over the outgoing edges of a pass
RECURSIVE computeUsersReadsOnly(_, _, _, _, _, _)
computeUsersReadsOnly(resources, slots, passes, nodes, edges, p) ==
    IF p > Len(passes) THEN resources
    ELSE IF isCulled(passes, p)
    THEN computeUsersReadsOnly(resources, slots, passes, nodes, edges, p + 1)
    ELSE LET reads == getIncomingEdges(edges, PassRef(p))
             afterReads == neededByEdges(resources, slots, nodes, NodesOf(reads, "from"), p)
         IN computeUsersReadsOnly(afterReads, slots, passes, nodes, edges, p + 1)

\* compile(): the loop over mPassNodes that computes first/last of the resources
RECURSIVE computeUsers(_, _, _, _, _, _)
computeUsers(resources, slots, passes, nodes, edges, p) ==
    IF p > Len(passes) THEN resources
    ELSE IF isCulled(passes, p)
    THEN computeUsers(resources, slots, passes, nodes, edges, p + 1)
    ELSE LET reads == getIncomingEdges(edges, PassRef(p))
             writes == getOutgoingEdges(edges, PassRef(p))
             afterReads == neededByEdges(resources, slots, nodes, NodesOf(reads, "from"), p)
             afterWrites == neededByEdges(afterReads, slots, nodes, NodesOf(writes, "to"), p)
         IN computeUsers(afterWrites, slots, passes, nodes, edges, p + 1)

\* resolveUsage that leaves the parents alone
propagateUsageNowhere(resources, p, u) == resources

\* the walk up the parent chain at the end of Resource::resolveUsage
RECURSIVE propagateUsage(_, _, _)
propagateUsage(resources, p, u) ==
    IF p = resources[p].parent THEN resources
    ELSE LET q == resources[p].parent
         IN propagateUsage([resources EXCEPT ![q].usage = @ \cup u], q, u)

\* resolveUsage that takes the writer edge only when it is valid
resolveUsageValidWriter(resources, r, passes, nodes, edges, readers, writer) ==
    LET fromReaders == UNION {edges[readers[i]].usage :
                                 i \in {j \in 1..Len(readers) :
                                           isEdgeValid(passes, nodes, edges[readers[j]])}}
        fromWriter == IF writer # 0 /\ isEdgeValid(passes, nodes, edges[writer])
                      THEN edges[writer].usage ELSE {}
        usage == resources[r].usage \cup fromReaders \cup fromWriter
    IN propagateUsage([resources EXCEPT ![r].usage = usage], r, usage)

\* Resource::resolveUsage for the readers and the writer of one node
resolveUsage(resources, r, passes, nodes, edges, readers, writer) ==
    LET fromReaders == UNION {edges[readers[i]].usage :
                                 i \in {j \in 1..Len(readers) :
                                           isEdgeValid(passes, nodes, edges[readers[j]])}}
        fromWriter == IF writer # 0 THEN edges[writer].usage ELSE {}
        usage == resources[r].usage \cup fromReaders \cup fromWriter
    IN propagateUsage([resources EXCEPT ![r].usage = usage], r, usage)

\* compile(): the loop over mResourceNodes, ResourceNode::resolveResourceUsage
RECURSIVE resolveResourceUsage(_, _, _, _, _, _)
resolveResourceUsage(resources, slots, passes, nodes, edges, n) ==
    IF n > Len(nodes) THEN resources
    ELSE resolveResourceUsage(
             resolveUsage(resources, ResourceOf(slots, nodes, n), passes, nodes, edges,
                          nodes[n].readers, nodes[n].writer),
             slots, passes, nodes, edges, n + 1)

\* FrameGraph::compile
compile ==
    /\ phase = "setup" /\ builder = 0
    /\ LET c == cull(mPassNodes, mResourceNodes, mEdges)
           users == computeUsers(mResources, mResourceSlots, c.passes, c.nodes, mEdges, 1)
       IN /\ mPassNodes' = c.passes
          /\ mResourceNodes' = c.nodes
          /\ mResources' = resolveResourceUsage(users, mResourceSlots, c.passes, c.nodes,
                                                mEdges, 1)
    /\ phase' = "compiled"
    /\ ret' = Call("compile", Uninitialized, Uninitialized, TRUE)
    /\ UNCHANGED <<mResourceSlots, mEdges, builder, held, issued, log>>

\* ------------------------------------------------------------- execute
Event(ev, id) == [ev |-> ev, id |-> id]

\* the marker of execute() itself, "FrameGraph"
FrameGraphMarker == 0

\* R::create(allocator, name, descriptor, usage): the call with its usage
CreateEvent(r, u) == [ev |-> "create", id |-> r, usage |-> u]

\* devirtualize that creates the backing of a sub-resource as well
devirtualizeAlwaysCreate(resources, r) ==
    <<Event("devirtualize", r)>> \o
    (IF resources[r].imported THEN <<>>
     ELSE <<CreateEvent(r, resources[r].usage)>>)

\* devirtualize that creates the backing with the usage declared at
\* construction
devirtualizeInitialUsage(resources, r) ==
    <<Event("devirtualize", r)>> \o
    (IF resources[r].imported THEN <<>>
     ELSE IF ~isSubResource(resources, r) THEN <<CreateEvent(r, {})>>
     ELSE <<Event("copy", r)>>)

\* Resource::devirtualize and ImportedResource::devirtualize
devirtualize(resources, r) ==
    <<Event("devirtualize", r)>> \o
    (IF resources[r].imported THEN <<>>
     ELSE IF ~isSubResource(resources, r)
     THEN <<CreateEvent(r, resources[r].usage)>>
     ELSE <<Event("copy", r)>>)

\* Resource::destroy and ImportedResource::destroy
destroy(resources, r) ==
    <<Event("destroy", r)>> \o
    (IF resources[r].imported THEN <<>>
     ELSE IF ~isSubResource(resources, r) THEN <<Event("allocatorDestroy", r)>>
     ELSE <<>>)

\* the first loop of execute() with the test first == node || last == node
RECURSIVE devirtualizeAllFirstOrLast(_, _, _)
devirtualizeAllFirstOrLast(resources, node, r) ==
    IF r > Len(resources) THEN <<>>
    ELSE (IF resources[r].first = node THEN devirtualize(resources, r) ELSE <<>>)
         \o (IF resources[r].last = node /\ resources[r].first # node
             THEN devirtualize(resources, r) ELSE <<>>)
         \o devirtualizeAllFirstOrLast(resources, node, r + 1)

\* the two loops of execute() over resourcesList
RECURSIVE devirtualizeAll(_, _, _)
devirtualizeAll(resources, node, r) ==
    IF r > Len(resources) THEN <<>>
    ELSE (IF resources[r].first = node THEN devirtualize(resources, r) ELSE <<>>)
         \o devirtualizeAll(resources, node, r + 1)

RECURSIVE destroyAll(_, _, _)
destroyAll(resources, node, r) ==
    IF r > Len(resources) THEN <<>>
    ELSE (IF resources[r].last = node THEN destroy(resources, r) ELSE <<>>)
         \o destroyAll(resources, node, r + 1)

\* the body of the loop without the test of isCulled
executePassUnconditional(passes, resources, node) ==
    <<Event("pushGroupMarker", node)>>
    \o devirtualizeAll(resources, node, 1)
    \o <<Event("execute", node)>>
    \o destroyAll(resources, node, 1)
    \o <<Event("popGroupMarker", node)>>

\* the body of the loop with the resources destroyed before the executor runs
executePassDestroyFirst(passes, resources, node) ==
    IF ~isCulled(passes, node)
    THEN <<Event("pushGroupMarker", node)>>
         \o devirtualizeAll(resources, node, 1)
         \o destroyAll(resources, node, 1)
         \o <<Event("execute", node)>>
         \o <<Event("popGroupMarker", node)>>
    ELSE <<>>

\* the body of the loop of execute() returning without popping its marker
executePassNoPop(passes, resources, node) ==
    IF ~isCulled(passes, node)
    THEN <<Event("pushGroupMarker", node)>>
         \o devirtualizeAll(resources, node, 1)
         \o <<Event("execute", node)>>
         \o destroyAll(resources, node, 1)
    ELSE <<>>

\* the body of the loop with the two loops over resourcesList exchanged
executePassLoopsExchanged(passes, resources, node) ==
    IF ~isCulled(passes, node)
    THEN <<Event("pushGroupMarker", node)>>
         \o destroyAll(resources, node, 1)
         \o <<Event("execute", node)>>
         \o devirtualizeAll(resources, node, 1)
         \o <<Event("popGroupMarker", node)>>
    ELSE <<>>

\* the body of the loop of execute() for one pass
executePass(passes, resources, node) ==
    IF ~isCulled(passes, node)
    THEN <<Event("pushGroupMarker", node)>>
         \o devirtualizeAll(resources, node, 1)
         \o <<Event("execute", node)>>
         \o destroyAll(resources, node, 1)
         \o <<Event("popGroupMarker", node)>>
    ELSE <<>>

\* the loop of execute() walking passNodes from the back
RECURSIVE executePassesReversed(_, _, _)
executePassesReversed(passes, resources, node) ==
    IF node > Len(passes) THEN <<>>
    ELSE executePassesReversed(passes, resources, node + 1)
         \o executePass(passes, resources, node)

\* the loop of execute() over passNodes
RECURSIVE executePasses(_, _, _)
executePasses(passes, resources, node) ==
    IF node > Len(passes) THEN <<>>
    ELSE executePass(passes, resources, node) \o executePasses(passes, resources, node + 1)

\* FrameGraph::execute, which ends with reset(); reset() clears the four
\* vectors and leaves the edges linked into mGraph alone
execute ==
    /\ phase = "compiled"
    /\ log' = <<Event("pushGroupMarker", FrameGraphMarker)>>
              \o executePasses(mPassNodes, mResources, 1)
              \o <<Event("flush", FrameGraphMarker),
                   Event("popGroupMarker", FrameGraphMarker)>>
    /\ mPassNodes' = <<>>
    /\ mResourceNodes' = <<>>
    /\ mResources' = <<>>
    /\ mResourceSlots' = <<>>
    /\ phase' = "done"
    /\ ret' = Call("execute", Uninitialized, Uninitialized, TRUE)
    /\ UNCHANGED <<mEdges, builder, held, issued>>

\* ---------------------------------------------------------------- Next
Handles == held \cup {Uninitialized}

\* one frame
Next ==
    \/ addPass /\ UNCHANGED frameVars
    \/ addPresentPass /\ UNCHANGED frameVars
    \/ sideEffect /\ UNCHANGED frameVars
    \/ endSetup /\ UNCHANGED frameVars
    \/ create /\ UNCHANGED frameVars
    \/ \E parent \in held : createSubresource(parent) /\ UNCHANGED frameVars
    \/ \E u \in ImportedUsages : import(u) /\ UNCHANGED frameVars
    \/ \E handle \in Handles, u \in ReadUsages : read(handle, u) /\ UNCHANGED frameVars
    \/ \E handle \in Handles, u \in WriteUsages : write(handle, u) /\ UNCHANGED frameVars
    \/ compile /\ UNCHANGED frameVars
    \/ execute /\ UNCHANGED frameVars

Spec == Init /\ [][Next]_vars

\* one frame, without sub-resources, whose passes write color and depth
NextWrites ==
    \/ addPass /\ UNCHANGED frameVars
    \/ addPresentPass /\ UNCHANGED frameVars
    \/ sideEffect /\ UNCHANGED frameVars
    \/ endSetup /\ UNCHANGED frameVars
    \/ create /\ UNCHANGED frameVars
    \/ \E u \in ImportedUsages : import(u) /\ UNCHANGED frameVars
    \/ \E handle \in Handles, u \in ReadUsages : read(handle, u) /\ UNCHANGED frameVars
    \/ \E handle \in Handles, u \in DepthWriteUsages :
          write(handle, u) /\ UNCHANGED frameVars
    \/ compile /\ UNCHANGED frameVars
    \/ execute /\ UNCHANGED frameVars

SpecWrites == Init /\ [][NextWrites]_vars

\* ------------------------------------------------------------ two frames
\* a call of the setup: the operation, its handle argument and its usage
\* argument, and what ret says of its result
Declared(op, h, u) == [op |-> op, h |-> h, u |-> u, r |-> ret'.r, ok |-> ret'.ok]

\* in the first frame the call is recorded; in the second frame it is the
\* call the first frame made at the same place
Scripted(op, h, u) ==
    /\ IF frame = 1
       THEN /\ Len(script) < MaxScript
            /\ script' = Append(script, Declared(op, h, u))
            /\ pos' = pos
       ELSE /\ pos < Len(script)
            /\ script[pos + 1].op = op /\ script[pos + 1].h = h /\ script[pos + 1].u = u
            /\ script' = script
            /\ pos' = pos + 1
    /\ UNCHANGED <<frame, outcome>>

\* compile() of a frame; in the second frame after the whole script was made again
compileFrame ==
    /\ compile
    /\ frame = 2 => pos = Len(script)
    /\ outcome' = IF frame = 1 THEN Outcome(mPassNodes', mResources') ELSE outcome
    /\ UNCHANGED <<frame, script, pos>>

\* execute() has returned, which ended with reset(); the application starts to
\* declare the same frame on the same FrameGraph, with new handles
beginFrame ==
    /\ phase = "done" /\ frame = 1
    /\ frame' = 2
    /\ phase' = "setup"
    /\ held' = {}
    /\ issued' = <<>>
    /\ ret' = Call("new", Uninitialized, Uninitialized, TRUE)
    /\ UNCHANGED <<mPassNodes, mResources, mResourceSlots, mResourceNodes, mEdges,
                   builder, log, script, pos, outcome>>

\* the usage argument of a call that takes none
NoUsage == {}

NextFrames ==
    \/ addPass /\ Scripted("addPass", Uninitialized, NoUsage)
    \/ addPresentPass /\ Scripted("addPresentPass", Uninitialized, NoUsage)
    \/ sideEffect /\ Scripted("sideEffect", Uninitialized, NoUsage)
    \/ endSetup /\ Scripted("endSetup", Uninitialized, NoUsage)
    \/ create /\ Scripted("create", Uninitialized, NoUsage)
    \/ \E parent \in held : createSubresource(parent) /\ Scripted("createSubresource", parent, NoUsage)
    \/ \E u \in ImportedUsages : import(u) /\ Scripted("import", Uninitialized, u)
    \/ \E handle \in Handles, u \in ReadUsages : read(handle, u) /\ Scripted("read", handle, u)
    \/ \E handle \in Handles, u \in WriteUsages : write(handle, u) /\ Scripted("write", handle, u)
    \/ compileFrame
    \/ execute /\ UNCHANGED frameVars
    \/ beginFrame

SpecFrames == Init /\ [][NextFrames]_vars

\* ==================================================================
\* Properties
\* ==================================================================
Passes == 1..Len(mPassNodes)
Resources == 1..Len(mResources)
Nodes == 1..Len(mResourceNodes)

LivePasses == {p \in Passes : ~isCulled(mPassNodes, p)}

\* the graph nodes one edge away from the graph nodes of S
Successors(S) == {mEdges[e].to : e \in {x \in 1..Len(mEdges) : mEdges[x].from \in S}}

\* the graph nodes a directed path (possibly empty) leads to from the nodes of S
RECURSIVE ReachableFrom(_)
ReachableFrom(S) ==
    LET T == S \cup Successors(S)
    IN IF T = S THEN S ELSE ReachableFrom(T)

TargetRefs == {PassRef(p) : p \in {q \in Passes : mPassNodes[q].target}}

HasPathToTarget(p) == ReachableFrom({PassRef(p)}) \cap TargetRefs # {}

\* C1: culling soundness: after compile a pass is culled if and only if no
\* directed path leads from it to a pass marked target.
C1_CullingSoundness ==
    phase = "compiled" =>
        \A p \in Passes : isCulled(mPassNodes, p) <=> ~HasPathToTarget(p)

\* the positions of an event in a log, and the ids of the events of one kind
Positions(l, ev, id) == {i \in 1..Len(l) : l[i].ev = ev /\ l[i].id = id}
Count(l, ev, id) == Cardinality(Positions(l, ev, id))

\* the step taken by execute(): the compiled graph before, the log after
ExecuteStep == phase = "compiled" /\ phase' = "done"

\* C2: the executors of the passes that are not culled run in the order the
\* passes were added: if P was added before Q, the executor of P has returned
\* before the executor of Q starts, whatever was culled in between.
C2_ExecutionOrder ==
    [][ExecuteStep =>
          \A P \in LivePasses, Q \in LivePasses :
              P < Q => /\ Positions(log', "execute", P) # {}
                       /\ Positions(log', "execute", Q) # {}
                       /\ \A i \in Positions(log', "execute", P),
                             j \in Positions(log', "execute", Q) : i < j]_vars

\* two live passes ran, around a pass that was culled
C2_Witness ==
    /\ phase = "done"
    /\ Count(log, "execute", 1) = 1 /\ Count(log, "execute", 3) = 1
    /\ Count(log, "execute", 2) = 0

\* the resources execute() devirtualizes or destroys between the push and the
\* pop of the group marker of pass p
InPass(l, p, i) ==
    \E a \in Positions(l, "pushGroupMarker", p), b \in Positions(l, "popGroupMarker", p) :
        a < i /\ i < b

\* C3: in one execute the executor of every pass that survived culling is
\* invoked exactly once; for a culled pass the executor is never invoked, no
\* group marker is pushed, and every devirtualize and destroy happens inside
\* the markers of a pass that is not culled.
C3_ExecutedOnceIffLive ==
    [][ExecuteStep =>
          /\ \A p \in Passes :
                IF isCulled(mPassNodes, p)
                THEN /\ Count(log', "execute", p) = 0
                     /\ Count(log', "pushGroupMarker", p) = 0
                     /\ Count(log', "popGroupMarker", p) = 0
                ELSE /\ Count(log', "execute", p) = 1
                     /\ Count(log', "pushGroupMarker", p) = 1
                     /\ Count(log', "popGroupMarker", p) = 1
          /\ \A i \in 1..Len(log') :
                log'[i].ev \in {"devirtualize", "destroy", "create", "copy",
                                "allocatorDestroy", "execute"}
                    => \E p \in LivePasses : InPass(log', p, i)
          /\ \A i \in 1..Len(log') :
                log'[i].ev = "execute" => log'[i].id \in LivePasses]_vars

\* a culled pass declared a resource and wrote it, a later pass ran
C3_Witness ==
    /\ phase = "done"
    /\ Count(log, "execute", 2) = 1
    /\ Count(log, "execute", 1) = 0
    /\ \E e \in 1..Len(mEdges) : mEdges[e].from = PassRef(1)

\* C4: for every live pass P, every resource with first == P is devirtualized
\* before the executor of P is invoked, and every resource with last == P is
\* destroyed after the executor of P returned and before the executor of the
\* next pass starts.
C4_DevirtualizeExecuteDestroy ==
    [][ExecuteStep =>
          \A P \in LivePasses : \A x \in Positions(log', "execute", P) :
              /\ \A r \in {q \in Resources : mResources[q].first = P} :
                    /\ Positions(log', "devirtualize", r) # {}
                    /\ \A i \in Positions(log', "devirtualize", r) : i < x
              /\ \A r \in {q \in Resources : mResources[q].last = P} :
                    /\ Positions(log', "destroy", r) # {}
                    /\ \A i \in Positions(log', "destroy", r) :
                          /\ x < i
                          /\ \A j \in 1..Len(log') :
                                (log'[j].ev = "execute" /\ x < j) => i < j]_vars

\* a resource was destroyed after one executor and before the next one
C4_Witness ==
    /\ phase = "done"
    /\ \E r \in 1..MaxResources, i \in 1..Len(log), j \in 1..Len(log), k \in 1..Len(log) :
          /\ i < j /\ j < k
          /\ log[i].ev = "execute"
          /\ log[j] = Event("destroy", r)
          /\ log[k].ev = "execute"
          /\ \E d \in Positions(log, "devirtualize", r) : d < i

\* the ResourceNodes that are the versions of resource r
NodesOfResource(r) == {n \in Nodes : ResourceOf(mResourceSlots, mResourceNodes, n) = r}

\* the passes with a read or a write edge to a version of resource r
PassesTouching(r) ==
    {p \in Passes : \E e \in 1..Len(mEdges), n \in NodesOfResource(r) :
        \/ mEdges[e].from = PassRef(p) /\ mEdges[e].to = NodeRef(n)
        \/ mEdges[e].from = NodeRef(n) /\ mEdges[e].to = PassRef(p)}

\* C5: lifetime tightness: after compile, for every resource with a first
\* pass, first is not after last in declaration order, and every pass that is
\* not culled and has a read or write edge to a version of the resource lies
\* between first and last.
C5_LifetimeTightness ==
    phase = "compiled" =>
        \A r \in Resources :
            mResources[r].first # 0 =>
                /\ mResources[r].first <= mResources[r].last
                /\ \A p \in PassesTouching(r) \cap LivePasses :
                      mResources[r].first <= p /\ p <= mResources[r].last

\* a resource written by one live pass and read by a later one
C5_Witness ==
    /\ phase = "compiled"
    /\ \E r \in Resources :
          /\ mResources[r].first # 0
          /\ mResources[r].first < mResources[r].last
          /\ mEdges[1].from = PassRef(mResources[r].first)
          /\ Cardinality(PassesTouching(r) \cap LivePasses) >= 2

RootResources == {r \in Resources : ~isSubResource(mResources, r) /\ ~mResources[r].imported}

\* C6 as stated: every root resource that is not imported, used by a live pass
\* or not, receives exactly one allocator create and one allocator destroy.
C6_AllocatorBalance_Stated ==
    [][ExecuteStep =>
          \A r \in RootResources :
              /\ Count(log', "create", r) = 1
              /\ Count(log', "allocatorDestroy", r) = 1]_vars

\* C6, amended: a root resource that is not imported receives exactly one
\* allocator create and one allocator destroy, the create first, when a pass
\* that is not culled reads or writes one of its versions (first is set), and
\* neither of them otherwise.
C6_AllocatorBalance ==
    [][ExecuteStep =>
          \A r \in RootResources :
              IF mResources[r].first # 0
              THEN /\ Count(log', "create", r) = 1
                   /\ Count(log', "allocatorDestroy", r) = 1
                   /\ \A i \in Positions(log', "create", r),
                         j \in Positions(log', "allocatorDestroy", r) : i < j
              ELSE /\ Count(log', "create", r) = 0
                   /\ Count(log', "allocatorDestroy", r) = 0]_vars

\* two resources were created in the graph, one of them was allocated and freed
C6_Witness ==
    /\ phase = "done"
    /\ Len(issued) = 2
    /\ \E r \in 1..2 :
          /\ Count(log, "create", r) = 1
          /\ Count(log, "allocatorDestroy", r) = 1
          /\ \A q \in (1..2) \ {r} : Count(log, "devirtualize", q) = 0

\* C7: only root resources that are not imported touch the allocator: the
\* devirtualize and the destroy of a sub-resource or of an imported resource
\* call neither the create nor the destroy of the allocator.
C7_OnlyRootsTouchAllocator ==
    [][ExecuteStep =>
          \A i \in 1..Len(log') :
              log'[i].ev \in {"create", "allocatorDestroy"} =>
                  log'[i].id \in RootResources]_vars

\* a resource was devirtualized and destroyed without a call of the allocator
C7_Witness ==
    /\ phase = "done"
    /\ \E r \in 1..MaxResources :
          /\ Count(log, "devirtualize", r) = 1
          /\ Count(log, "destroy", r) = 1
          /\ Count(log, "create", r) = 0
          /\ Count(log, "allocatorDestroy", r) = 0

\* the handles h0, h1, ..., hn of slot s: h0 from create, hi returned by the
\* i-th successful write, which was applied to h(i-1)
Chain(s) == issued[s]
LastOf(c) == c[Len(c)]

\* C8 as stated: every hi has version i, all hi have the same index, and only
\* the last handle hn passes isValid.
C8_VersionConsistency_Stated ==
    phase # "done" =>
        \A s \in 1..Len(issued) :
            \A i \in 0..(Len(Chain(s)) - 1) :
                /\ Chain(s)[i + 1].version = i
                /\ Chain(s)[i + 1].index = Chain(s)[1].index
                /\ isValid(Chain(s)[i + 1]) <=> i = Len(Chain(s)) - 1

\* C8, amended: the first write finds a node without writer and returns h0
\* itself, so h1 = h0 has version 0 and hi has version i - 1 for i >= 1; all hi
\* have the same index; the handle a successful write returns is valid and is
\* the last of its sequence; and no handle of the sequence that differs from
\* hn passes isValid.
C8_VersionConsistency ==
    phase # "done" =>
        /\ \A s \in 1..Len(issued) :
              \A i \in 0..(Len(Chain(s)) - 1) :
                  /\ Chain(s)[i + 1].version = (IF i = 0 THEN 0 ELSE i - 1)
                  /\ Chain(s)[i + 1].index = s
                  /\ isValid(Chain(s)[i + 1]) => Chain(s)[i + 1] = LastOf(Chain(s))
        /\ (ret.op = "write" /\ ret.ok) =>
              /\ isValid(ret.r)
              /\ ret.r = LastOf(Chain(ret.r.index))

\* three handles of one resource: h0, h1 = h0 and h2 with version 1
C8_Witness ==
    /\ phase = "setup"
    /\ ret.op = "write" /\ ret.ok
    /\ Len(Chain(ret.r.index)) = 3
    /\ ret.r.version = 1

\* scenario S2 after setup: create X, pass A writes X, pass B writes the handle
\* the write of A returned, the present pass reads the handle the write of B
\* returned; nothing else is declared
S2Setup ==
    /\ Len(mPassNodes) = 3
    /\ ~mPassNodes[1].present /\ ~mPassNodes[2].present /\ mPassNodes[3].present
    /\ ~mPassNodes[1].target /\ ~mPassNodes[2].target
    /\ Len(mResources) = 1 /\ ~mResources[1].imported
    /\ Len(issued[1]) = 3
    /\ Len(mEdges) = 3
    /\ mEdges[1].from = PassRef(1) /\ mEdges[1].to[1] = "resource"
    /\ mEdges[2].from = PassRef(2) /\ mEdges[2].to[1] = "resource"
    /\ mEdges[3].to = PassRef(3) /\ mEdges[3].from = mEdges[2].to
    /\ mResourceNodes[mEdges[1].to[2]].resourceHandle = issued[1][2]
    /\ mResourceNodes[mEdges[2].to[2]].resourceHandle = issued[1][3]

\* what S2 says of execute: A and B both run, A before B, and the allocator
\* sees one create and one destroy for X
S2Executed_Stated(l) ==
    /\ 1 \in LivePasses /\ 2 \in LivePasses
    /\ Count(l, "execute", 1) = 1 /\ Count(l, "execute", 2) = 1
    /\ \A i \in Positions(l, "execute", 1), j \in Positions(l, "execute", 2) : i < j
    /\ Count(l, "create", 1) = 1 /\ Count(l, "allocatorDestroy", 1) = 1

\* C9 as stated: in scenario S2 A and B execute in order, the rid of the slot
\* is the one given at create, the version of the resource is 2 at the end of
\* setup and the allocator sees one create and one destroy.
C9_WriteAliasing_Stated ==
    [][(ExecuteStep /\ S2Setup) =>
          /\ S2Executed_Stated(log')
          /\ mResourceSlots[1].rid = 1
          /\ mResources[1].version = 2]_vars

\* what execute does in S2: nothing reads the version A wrote, so A is culled
\* and never runs; B runs, before the present pass; one create, one destroy
S2Executed(l) ==
    /\ 1 \notin LivePasses /\ 2 \in LivePasses /\ 3 \in LivePasses
    /\ Count(l, "execute", 1) = 0 /\ Count(l, "execute", 2) = 1
    /\ \A i \in Positions(l, "execute", 2), j \in Positions(l, "execute", 3) : i < j
    /\ Count(l, "create", 1) = 1 /\ Count(l, "allocatorDestroy", 1) = 1

\* C9, amended: in scenario S2 the write of A finds no writer and returns the
\* handle of version 0, only the write of B makes a new version, so the version
\* of the resource is 1 at the end of setup; the version A wrote has no reader,
\* so A is culled and only B executes; the rid of the slot is the one given at
\* create and the allocator sees one create and one destroy.
C9_WriteAliasing ==
    [][(ExecuteStep /\ S2Setup) =>
          /\ S2Executed(log')
          /\ mResourceSlots[1].rid = 1
          /\ mResources[1].version = 1]_vars

\* scenario S2 was set up, compiled and executed
C9_Witness ==
    /\ phase = "done"
    /\ Len(issued) = 1 /\ Len(issued[1]) = 3
    /\ Len(mEdges) = 3
    /\ mEdges[1].from = PassRef(1) /\ mEdges[2].from = PassRef(2)
    /\ mEdges[3].to = PassRef(3) /\ mEdges[3].from = mEdges[2].to
    /\ log = <<Event("pushGroupMarker", FrameGraphMarker),
               Event("pushGroupMarker", 2), Event("devirtualize", 1),
               CreateEvent(1, {SAMPLEABLE, COLOR_ATTACHMENT}),
               Event("execute", 2), Event("popGroupMarker", 2),
               Event("pushGroupMarker", 3), Event("execute", 3), Event("destroy", 1),
               Event("allocatorDestroy", 1), Event("popGroupMarker", 3),
               Event("flush", FrameGraphMarker),
               Event("popGroupMarker", FrameGraphMarker)>>

\* the handles of the ResourceNodes, in the order of mResourceNodes
NodeHandles(nodes) == [n \in 1..Len(nodes) |-> nodes[n].resourceHandle]

\* a step of write() on a handle that is valid
WriteStep == phase = "setup" /\ ret'.op = "write" /\ isValid(ret'.h)

\* C10: a write on a valid handle whose current ResourceNode has no writer
\* returns the same handle and changes neither the slot, the version of the
\* resource nor the ResourceNodes there are; otherwise it increments the
\* version by one, appends one ResourceNode that carries the new handle,
\* rebinds the nid of the slot to it and stores the new version in the
\* resource. In both cases no slot changes its rid.
C10_WriteEffect ==
    [][WriteStep =>
          LET handle == ret'.h
              slot == mResourceSlots[handle.index]
          IN /\ IF ~hasWriter(slot.nid)
                THEN /\ ret'.r = handle
                     /\ mResourceSlots' = mResourceSlots
                     /\ mResources' = mResources
                     /\ NodeHandles(mResourceNodes') = NodeHandles(mResourceNodes)
                ELSE /\ ret'.r = [index |-> handle.index, version |-> handle.version + 1]
                     /\ mResources'[slot.rid].version = mResources[slot.rid].version + 1
                     /\ mResources'[slot.rid].version = ret'.r.version
                     /\ Len(mResourceNodes') = Len(mResourceNodes) + 1
                     /\ SubSeq(NodeHandles(mResourceNodes'), 1, Len(mResourceNodes))
                            = NodeHandles(mResourceNodes)
                     /\ mResourceNodes'[Len(mResourceNodes')].resourceHandle = ret'.r
                     /\ mResourceSlots'[handle.index].nid = Len(mResourceNodes')
                     /\ \A s \in 1..Len(mResourceSlots) :
                           s # handle.index => mResourceSlots'[s] = mResourceSlots[s]
             /\ Len(mResourceSlots') = Len(mResourceSlots)
             /\ \A s \in 1..Len(mResourceSlots) :
                   mResourceSlots'[s].rid = mResourceSlots[s].rid]_vars

\* a write has made a second version of a resource
C10_Witness ==
    /\ phase = "setup"
    /\ ret.op = "write" /\ ret.ok
    /\ ret.r.version = ret.h.version + 1
    /\ mResourceSlots[ret.r.index].nid = Len(mResourceNodes)
    /\ mResourceSlots[ret.r.index].rid < mResourceSlots[ret.r.index].nid

\* a handle that is uninitialized, or whose version is not the current version
\* of the resource of its slot
InvalidHandle(handle) ==
    \/ handle.index = 0
    \/ handle.version # mResources[mResourceSlots[handle.index].rid].version

\* a step of read() or write() in a setup callback
ReadOrWriteStep == phase = "setup" /\ ret'.op \in {"read", "write"}

\* C11: a read or a write called with an uninitialized handle, or with a
\* handle whose version is not the current version of the resource, returns an
\* uninitialized handle and changes no slot, no resource (its version
\* included), no ResourceNode and no edge.
C11_InvalidHandleNoEffect ==
    [][(ReadOrWriteStep /\ InvalidHandle(ret'.h)) =>
          /\ ret'.r = Uninitialized
          /\ ~ret'.ok
          /\ mResourceSlots' = mResourceSlots
          /\ mResources' = mResources
          /\ mResourceNodes' = mResourceNodes
          /\ mEdges' = mEdges]_vars

\* a write was called with a handle that an earlier write had superseded
C11_Witness ==
    /\ phase = "setup"
    /\ ret.op = "write" /\ ~ret.ok
    /\ ret.h.index # 0
    /\ ret.h.version < mResources[mResourceSlots[ret.h.index].rid].version
    /\ ret.r = Uninitialized

\* the calls of the script that made a resource: the r-th of them made resource r
CreatingCalls ==
    SelectSeq(script, LAMBDA c : c.op \in {"create", "createSubresource", "import"})

\* the usage resource r was imported with
ImportedWith(r) == CreatingCalls[r].u

\* the resource a handle of the first frame stands for
RidOf(handle) == mResourceSlots[handle.index].rid

\* a step of read() or write() of the first frame that reaches connect() on an
\* imported resource
ConnectOnImported ==
    /\ frame = 1 /\ ReadOrWriteStep
    /\ ~InvalidHandle(ret'.h)
    /\ mResources[RidOf(ret'.h)].imported

\* the calls of the script whose connect() returned false
Refused == {i \in 1..Len(script) :
               /\ script[i].op \in {"read", "write"}
               /\ ~script[i].ok /\ isInitialized(script[i].r)}

\* C12: a read or write that reaches connect() on an imported resource with
\* usage u connects an edge (with usage u, between the pass and a node of the
\* resource) and returns true if and only if u is a subset of the usage the
\* resource was imported with; otherwise no edge is added. And the execute()
\* of a frame in which a connect was refused runs to its end without a create
\* or a destroy of the allocator for that resource.
C12_IncompatibleUsage ==
    [][/\ ConnectOnImported =>
           LET call == script'[Len(script')]
               r == RidOf(ret'.h)
           IN /\ ret'.ok <=> call.u \subseteq ImportedWith(r)
              /\ IF ret'.ok
                 THEN /\ Len(mEdges') = Len(mEdges) + 1
                      /\ SubSeq(mEdges', 1, Len(mEdges)) = mEdges
                      /\ LET edge == mEdges'[Len(mEdges')]
                             node == IF ret'.op = "read" THEN edge.from ELSE edge.to
                             pass == IF ret'.op = "read" THEN edge.to ELSE edge.from
                         IN /\ edge.usage = call.u
                            /\ pass = PassRef(builder)
                            /\ node[1] = "resource"
                            /\ RidOf(mResourceNodes'[node[2]].resourceHandle) = r
                 ELSE mEdges' = mEdges
       /\ (ExecuteStep /\ frame = 1) =>
           /\ log'[Len(log')] = Event("popGroupMarker", FrameGraphMarker)
           /\ \A i \in Refused :
                 /\ mResources[RidOf(script[i].h)].imported
                 /\ Count(log', "create", RidOf(script[i].h)) = 0
                 /\ Count(log', "allocatorDestroy", RidOf(script[i].h)) = 0]_vars

\* scenario S4 was declared, compiled and executed: a resource imported with
\* COLOR_ATTACHMENT, a pass whose read of it with SAMPLEABLE was refused
C12_Witness ==
    /\ phase = "done" /\ frame = 1
    /\ Len(script) >= 4
    /\ script[1].op = "import" /\ script[1].u = {COLOR_ATTACHMENT}
    /\ script[2].op = "addPass"
    /\ \E i \in Refused :
          script[i].op = "read" /\ script[i].u = {SAMPLEABLE} /\ script[i].h = script[1].r
    /\ mEdges = <<>>
    /\ Count(log, "execute", 1) = 1

\* the edges with an end at a version of resource r, and those of them whose
\* two ends survived culling
EdgesOfResource(r) ==
    {e \in 1..Len(mEdges) : \E n \in NodesOfResource(r) :
        mEdges[e].from = NodeRef(n) \/ mEdges[e].to = NodeRef(n)}
LiveEdgesOfResource(r) ==
    {e \in EdgesOfResource(r) : isEdgeValid(mPassNodes, mResourceNodes, mEdges[e])}

\* C13 as stated: after compile the usage of every resource is exactly the
\* union of the usages of the live edges at its versions.
C13_UsageAggregation_Stated ==
    phase = "compiled" =>
        \A r \in Resources :
            mResources[r].usage = UNION {mEdges[e].usage : e \in LiveEdgesOfResource(r)}

\* the resources on the parent chain of r, r included, and the resources below r
RECURSIVE Ancestors(_)
Ancestors(r) ==
    IF mResources[r].parent = r THEN {r} ELSE {r} \cup Ancestors(mResources[r].parent)
Below(r) == {d \in Resources : r \in Ancestors(d)}

\* the usage a resource has from its own edges: the read edges at its
\* versions whose two ends survived culling, and the write edge of each of
\* its versions whether its ends survived or not
WriteEdgesOfResource(r) == {e \in EdgesOfResource(r) : mEdges[e].to[1] = "resource"}
ReadEdgesOfResource(r) == {e \in EdgesOfResource(r) : mEdges[e].from[1] = "resource"}
OwnUsage(r) ==
    UNION {mEdges[e].usage :
              e \in (ReadEdgesOfResource(r) \cap LiveEdgesOfResource(r))
                       \cup WriteEdgesOfResource(r)}

\* the step taken by compile(): the declared graph before, the result after
CompileStep == phase = "setup" /\ phase' = "compiled"

\* C13, amended: compile leaves in the usage of every resource the union of
\* the usage it had before (the usage it was imported with if it is imported,
\* none otherwise) and, for the resource and every sub-resource below it, of
\* the usages of the read edges whose two ends survived culling and of the
\* write edges, whether their ends survived culling or not.
C13_UsageAggregation ==
    [][CompileStep =>
          \A r \in Resources :
              /\ ~mResources[r].imported => mResources[r].usage = {}
              /\ mResources'[r].usage =
                     mResources[r].usage \cup UNION {OwnUsage(d)' : d \in Below(r)}]_vars

\* a resource that a live pass writes and nothing reads: its version is
\* culled, no edge at it is live, and its usage is that of the write edge
C13_Witness ==
    /\ phase = "compiled"
    /\ \E r \in Resources :
          /\ ~mResources[r].imported /\ Below(r) = {r}
          /\ LiveEdgesOfResource(r) = {}
          /\ \E e \in WriteEdgesOfResource(r) : ~isCulled(mPassNodes, mEdges[e].from[2])
          /\ mResources[r].usage = {COLOR_ATTACHMENT}

\* the loop of compile() over the ResourceNodes, taken in a given order
RECURSIVE resolveInOrder(_, _, _, _, _, _)
resolveInOrder(resources, slots, passes, nodes, edges, order) ==
    IF order = <<>> THEN resources
    ELSE LET n == Head(order)
         IN resolveInOrder(
                resolveUsage(resources, ResourceOf(slots, nodes, n), passes, nodes, edges,
                             nodes[n].readers, nodes[n].writer),
                slots, passes, nodes, edges, Tail(order))

\* the orders in which the ResourceNodes can be taken
NodeOrders ==
    {order \in [Nodes -> Nodes] : \A n \in Nodes : \E i \in Nodes : order[i] = n}

\* the usage of every sub-resource is within the usage of each resource above it
UsageLifted(resources) ==
    \A S \in Resources :
        isSubResource(resources, S) =>
            \A T \in Ancestors(S) : resources[S].usage \subseteq resources[T].usage

\* C14: after compile the usage of every sub-resource is a subset of the
\* usage of every resource on its parent chain, and that is so for every
\* order in which the ResourceNodes could be resolved.
C14_SubResourceUsageLifting ==
    [][CompileStep =>
          /\ UsageLifted(mResources')
          /\ \A order \in NodeOrders :
                UsageLifted(resolveInOrder(mResources, mResourceSlots, mPassNodes',
                                           mResourceNodes', mEdges, order))]_vars

\* scenario S3 with a chain of two sub-resources was compiled: the lowest one
\* is read with SAMPLEABLE by a live pass, and the two resources above it,
\* which have no edge of their own, have the bit from it
C14_Witness ==
    /\ phase = "compiled" /\ frame = 1
    /\ \E S \in Resources :
          /\ Cardinality(Ancestors(S)) = 3
          /\ mResources[S].usage = {SAMPLEABLE}
          /\ mResources[S].first # 0
          /\ \A T \in Ancestors(S) \ {S} :
                EdgesOfResource(T) = {} /\ mResources[T].usage = {SAMPLEABLE}

\* C15: when the graph of the first frame is declared again, call by call,
\* on the same FrameGraph after execute() has returned, the second compile()
\* culls the same passes and leaves in every resource the same first, last
\* and usage as the first compile() did.
C15_Idempotence ==
    (frame = 2 /\ phase = "compiled") => Outcome(mPassNodes, mResources) = outcome

\* C16: every present pass and every pass whose setup called sideEffect() is
\* not culled by compile and has its executor run once by execute, whatever
\* its outgoing edges are and whether what it writes is read or not.
C16_TargetsAreRoots ==
    [][/\ CompileStep =>
           \A p \in Passes :
               (mPassNodes[p].present \/ mPassNodes[p].target) => ~isCulled(mPassNodes', p)
       /\ ExecuteStep =>
           \A p \in Passes :
               (mPassNodes[p].present \/ mPassNodes[p].target) =>
                   /\ ~isCulled(mPassNodes, p)
                   /\ Count(log', "execute", p) = 1]_vars

\* the executor of a pass ran although nothing reads what the pass wrote, and
\* so did the executor of a pass without any edge
C16_Witness ==
    /\ phase = "done"
    /\ \E p \in 1..MaxPasses, q \in 1..MaxPasses :
          /\ Count(log, "execute", p) = 1
          /\ \E e \in 1..Len(mEdges) : mEdges[e].from = PassRef(p)
          /\ \A e \in 1..Len(mEdges) :
                mEdges[e].from = PassRef(p) =>
                    \A f \in 1..Len(mEdges) : mEdges[f].from # mEdges[e].to
          /\ Count(log, "execute", q) = 1
          /\ \A e \in 1..Len(mEdges) : mEdges[e].from # PassRef(q) /\ mEdges[e].to # PassRef(q)

\* the resources all of whose versions were culled
AllNodesCulled(r) == \A n \in NodesOfResource(r) : isNodeCulled(mResourceNodes, n)

\* C17 as stated: after compile a resource all of whose ResourceNodes were
\* culled has first == last == null, and execute neither devirtualizes nor
\* destroys it.
C17_CulledResourceUnused_Stated ==
    [][ExecuteStep =>
          \A r \in Resources :
              AllNodesCulled(r) =>
                  /\ mResources[r].first = 0 /\ mResources[r].last = 0
                  /\ Count(log', "devirtualize", r) = 0
                  /\ Count(log', "destroy", r) = 0]_vars

\* the live passes with a read or write edge to a version of r, culled or not
LiveUsers(r) == PassesTouching(r) \cap LivePasses

\* C17, amended: compile calls neededByPass for every outgoing edge of a
\* surviving pass, whether the ResourceNode written was culled or not. So
\* after compile first and last of a resource are null exactly when no pass
\* that survived culling reads or writes one of its versions, and such a
\* resource is neither devirtualized nor destroyed; a resource all of whose
\* ResourceNodes were culled but which a surviving pass writes has first and
\* last set to the first and last such pass, and execute devirtualizes and
\* destroys it once.
C17_CulledResourceUnused ==
    [][ExecuteStep =>
          \A r \in Resources :
              IF LiveUsers(r) = {}
              THEN /\ mResources[r].first = 0 /\ mResources[r].last = 0
                   /\ Count(log', "devirtualize", r) = 0
                   /\ Count(log', "destroy", r) = 0
              ELSE /\ mResources[r].first \in LiveUsers(r)
                   /\ mResources[r].last \in LiveUsers(r)
                   /\ \A p \in LiveUsers(r) :
                         mResources[r].first <= p /\ p <= mResources[r].last
                   /\ Count(log', "devirtualize", r) = 1
                   /\ Count(log', "destroy", r) = 1]_vars

\* a resource with one version, written by a pass that ran and read by
\* nobody, so that its only ResourceNode was culled: it was created and destroyed
C17_Witness ==
    /\ phase = "done"
    /\ Len(issued) = 1
    /\ \A i \in 1..Len(issued[1]) : issued[1][i].version = 0
    /\ Len(mEdges) = 1
    /\ mEdges[1].from[1] = "pass" /\ mEdges[1].to = NodeRef(1)
    /\ Count(log, "execute", mEdges[1].from[2]) = 1
    /\ Count(log, "create", 1) = 1
    /\ Count(log, "allocatorDestroy", 1) = 1

\* the depth of the group markers after the first i events of a log
IsPush(e) == e.ev = "pushGroupMarker"
IsPop(e) == e.ev = "popGroupMarker"
Depth(l, i) ==
    Cardinality({j \in 1..i : IsPush(l[j])}) - Cardinality({j \in 1..i : IsPop(l[j])})

\* the events execute() makes on behalf of pass p
WorkOf(l, p) ==
    {i \in 1..Len(l) :
        \/ l[i] = Event("execute", p)
        \/ l[i].ev = "devirtualize" /\ mResources[l[i].id].first = p
        \/ l[i].ev = "destroy" /\ mResources[l[i].id].last = p}

\* C18: the group markers of an execute are balanced and nested: "FrameGraph"
\* is pushed first; every live pass, in order, has one push before and one pop
\* after its devirtualize, executor and destroy; a culled pass has none; one
\* flush follows the last pass and precedes the last pop; the depth never
\* goes below zero and is zero at the end.
C18_GroupMarkers ==
    [][ExecuteStep =>
          LET l == log'
              n == Len(l)
          IN /\ n >= 3
             /\ l[1] = Event("pushGroupMarker", FrameGraphMarker)
             /\ l[n] = Event("popGroupMarker", FrameGraphMarker)
             /\ l[n - 1] = Event("flush", FrameGraphMarker)
             /\ Cardinality({i \in 1..n : l[i].ev = "flush"}) = 1
             /\ Count(l, "pushGroupMarker", FrameGraphMarker) = 1
             /\ Count(l, "popGroupMarker", FrameGraphMarker) = 1
             /\ \A i \in 1..n : (IsPush(l[i]) \/ IsPop(l[i])) =>
                     l[i].id \in LivePasses \cup {FrameGraphMarker}
             /\ \A p \in LivePasses :
                     /\ Count(l, "pushGroupMarker", p) = 1
                     /\ Count(l, "popGroupMarker", p) = 1
                     /\ \A a \in Positions(l, "pushGroupMarker", p),
                           b \in Positions(l, "popGroupMarker", p) :
                            /\ a < b /\ b < n - 1
                            /\ Depth(l, a) = 2 /\ Depth(l, b) = 1
                            /\ WorkOf(l, p) # {}
                            /\ \A i \in WorkOf(l, p) : a < i /\ i < b
                            /\ \A q \in LivePasses : p < q =>
                                  \A c \in Positions(l, "pushGroupMarker", q) : b < c
             /\ \A i \in 1..n : (l[i].ev \in {"execute", "devirtualize", "destroy"}) =>
                     \E p \in LivePasses : i \in WorkOf(l, p)
             /\ \A i \in 1..(n - 1) : Depth(l, i) >= 1 /\ Depth(l, i) <= 2
             /\ Depth(l, n) = 0]_vars

\* an execute of three passes, the second culled, where the first pass
\* creates a resource and the third destroys it
C18_Witness ==
    /\ phase = "done"
    /\ Count(log, "pushGroupMarker", 1) = 1 /\ Count(log, "popGroupMarker", 3) = 1
    /\ Count(log, "pushGroupMarker", 2) = 0
    /\ \E i \in Positions(log, "create", 1), j \in Positions(log, "allocatorDestroy", 1),
          a \in Positions(log, "popGroupMarker", 1),
          b \in Positions(log, "pushGroupMarker", 3) : i < a /\ b < j

\* the edges that write ResourceNode n
WritersOf(n) == {e \in 1..Len(mEdges) : mEdges[e].to = NodeRef(n)}

\* C19: single writer: in every reachable state each ResourceNode has at most
\* one incoming writer edge, and it is the one the node holds as its writer,
\* also when several passes write through the same handle.
C19_SingleWriter ==
    \A n \in Nodes :
        /\ Cardinality(WritersOf(n)) <= 1
        /\ hasWriter(n) => WritersOf(n) = {mResourceNodes[n].writer}
        /\ ~hasWriter(n) => WritersOf(n) = {}

\* a second pass has just written through the handle the first pass wrote
\* through: the write went to a new version
C19_Witness ==
    /\ phase = "setup"
    /\ ret.op = "write" /\ ret.ok
    /\ isInitialized(ret.h) /\ ret.h.version = 0
    /\ isInitialized(ret.r) /\ ret.r.version = 1
    /\ \E e \in 1..Len(mEdges), f \in 1..Len(mEdges) :
          /\ mEdges[e].from[1] = "pass" /\ mEdges[f].from[1] = "pass"
          /\ mEdges[e].from # mEdges[f].from
          /\ mEdges[e].to[1] = "resource" /\ mEdges[f].to[1] = "resource"
          /\ mEdges[e].to # mEdges[f].to
          /\ ResourceOf(mResourceSlots, mResourceNodes, mEdges[e].to[2])
               = ResourceOf(mResourceSlots, mResourceNodes, mEdges[f].to[2])

\* the positions of a log at which resource r holds a backing its
\* sub-resources can copy: after its devirtualize, before its destroy
Backed(l, r, i) ==
    /\ \E j \in Positions(l, "devirtualize", r) : j < i
    /\ \A k \in Positions(l, "destroy", r) : i < k

\* C20: parent devirtualized first: whenever execute devirtualizes a
\* sub-resource, copying the backing of its parent, the parent is imported or
\* has been devirtualized earlier in this execute and is not yet destroyed,
\* also when no pass references the parent itself.
C20_ParentDevirtualizedFirst ==
    [][ExecuteStep =>
          \A r \in Resources :
              isSubResource(mResources, r) =>
                  \A i \in Positions(log', "devirtualize", r) :
                      \/ mResources[mResources[r].parent].imported
                      \/ Backed(log', mResources[r].parent, i)]_vars

\* C21: usage is final before allocation: the usage handed to R::create when
\* execute devirtualizes a root resource is the usage the resource has at the
\* end of compile, and that usage already holds the usage of every valid edge
\* at every version of the resource and of every sub-resource below it.
C21_UsageFinalBeforeAllocation ==
    [][ExecuteStep =>
          \A i \in 1..Len(log') :
              log'[i].ev = "create" =>
                  LET r == log'[i].id
                  IN /\ r \in Resources
                     /\ ~isSubResource(mResources, r)
                     /\ log'[i].usage = mResources[r].usage
                     /\ \A d \in Below(r) : \A e \in LiveEdgesOfResource(d) :
                            mEdges[e].usage \subseteq log'[i].usage]_vars

\* a root resource written with COLOR_ATTACHMENT whose sub-resource is read
\* with SAMPLEABLE: the backing of the root was created with both
C21_Witness ==
    /\ phase = "done"
    /\ Len(issued) = 2
    /\ Len(mEdges) = 2
    /\ mEdges[1].to = NodeRef(1) /\ mEdges[1].usage = {COLOR_ATTACHMENT}
    /\ mEdges[2].from = NodeRef(2) /\ mEdges[2].usage = {SAMPLEABLE}
    /\ Count(log, "copy", 2) = 1
    /\ \E i \in Positions(log, "create", 1) :
          log[i] = CreateEvent(1, {SAMPLEABLE, COLOR_ATTACHMENT})

\* C22: create/destroy pairing: after compile first is null iff last is
\* null, and when set both are passes that survived culling; so in execute
\* every resource is devirtualized at most once, destroyed at most once,
\* destroyed iff devirtualized, and devirtualized before it is destroyed, also
\* when first and last are the same pass.
C22_CreateDestroyPairing ==
    [][ExecuteStep =>
          \A r \in Resources :
              /\ mResources[r].first = 0 <=> mResources[r].last = 0
              /\ mResources[r].first # 0 =>
                     /\ mResources[r].first \in LivePasses
                     /\ mResources[r].last \in LivePasses
                     /\ mResources[r].first <= mResources[r].last
              /\ Count(log', "devirtualize", r) <= 1
              /\ Count(log', "destroy", r) <= 1
              /\ Count(log', "devirtualize", r) = Count(log', "destroy", r)
              /\ Count(log', "devirtualize", r) = 1 <=> mResources[r].first # 0
              /\ \A i \in Positions(log', "devirtualize", r),
                    j \in Positions(log', "destroy", r) : i < j]_vars

\* one resource was devirtualized and destroyed inside one pass, another was
\* devirtualized in one pass and destroyed in a later one
C22_Witness ==
    /\ phase = "done"
    /\ \E r \in 1..MaxResources, p \in 1..MaxPasses :
          \E i \in Positions(log, "devirtualize", r), j \in Positions(log, "destroy", r) :
              InPass(log, p, i) /\ InPass(log, p, j)
    /\ \E r \in 1..MaxResources, p \in 1..MaxPasses, q \in 1..MaxPasses :
          /\ p < q
          /\ \E i \in Positions(log, "devirtualize", r), j \in Positions(log, "destroy", r) :
                InPass(log, p, i) /\ InPass(log, q, j)

\* the root of the parent chain of r: VirtualResource::getResource
RootOf(r) == CHOOSE a \in Ancestors(r) : mResources[a].parent = a

\* C23: no use after destroy through a sub-resource: when the executor of a
\* live pass runs, the root of the parent chain of every resource the pass
\* reads or writes is imported or has been devirtualized and is not yet
\* destroyed; so the backing of a root outlives the last live pass that
\* references one of its sub-resources.
C23_NoUseAfterDestroy ==
    [][ExecuteStep =>
          \A p \in LivePasses : \A r \in Resources :
              p \in PassesTouching(r) =>
                  \A i \in Positions(log', "execute", p) :
                      \/ mResources[RootOf(r)].imported
                      \/ Backed(log', RootOf(r), i)]_vars

\* a step of write() on a valid handle whose connect() returned false: the
\* usage is not one the resource was imported with
RefusedWriteStep == WriteStep /\ ~ret'.ok

\* C24: a rejected write preserves the state: when connect() refuses a write
\* on an imported resource, the version of the resource, the nid of the slot
\* and the ResourceNodes are what they were before the call, and every handle
\* that was valid before is valid after, also when the current node of the
\* slot already had a writer.
C24_RejectedWritePreservesState ==
    [][RefusedWriteStep =>
          LET rid == RidOf(ret'.h)
          IN /\ mResources[rid].imported
             /\ mResources'[rid].version = mResources[rid].version
             /\ mResourceSlots'[ret'.h.index].nid = mResourceSlots[ret'.h.index].nid
             /\ mResourceNodes' = mResourceNodes
             /\ ret'.h.version = mResources'[mResourceSlots'[ret'.h.index].rid].version
             /\ \A h \in held : isValid(h) => isValid(h)']_vars

\* the handles a caller can hold: an index of a slot, or none, and a version
SlotHandles ==
    {Uninitialized} \cup
    [index : 1..Len(mResourceSlots), version : 0..MaxNodes]

\* the handle of the current ResourceNode of slot i
CurrentHandle(i) == mResourceNodes[mResourceSlots[i].nid].resourceHandle

\* C25: slot consistency: in every state of the setup, for every slot i, rid
\* and nid are within bounds, the ResourceNode at nid carries a handle whose
\* index is i and whose version is the version of the resource at rid, and
\* two slots never have the same rid; so a handle is valid exactly when it is
\* the handle of the current node of its slot.
C25_SlotConsistency ==
    phase = "setup" =>
        /\ \A i \in 1..Len(mResourceSlots) :
              /\ mResourceSlots[i].rid \in Resources
              /\ mResourceSlots[i].nid \in Nodes
              /\ CurrentHandle(i).index = i
              /\ CurrentHandle(i).version = mResources[mResourceSlots[i].rid].version
              /\ \A j \in 1..Len(mResourceSlots) :
                    i # j => mResourceSlots[i].rid # mResourceSlots[j].rid
        /\ \A h \in SlotHandles :
              isValid(h) <=> (isInitialized(h) /\ h = CurrentHandle(h.index))

\* two slots, one of them rebound by a write to a second version: the caller
\* holds the handle of the version before, not valid any more, and the
\* handle of the current one
C25_Witness ==
    /\ phase = "setup"
    /\ Len(mResourceSlots) = 2
    /\ \E i \in 1..2 :
          /\ mResources[mResourceSlots[i].rid].version = 1
          /\ [index |-> i, version |-> 0] \in held
          /\ ~isValid([index |-> i, version |-> 0])
          /\ [index |-> i, version |-> 1] \in held
          /\ isValid([index |-> i, version |-> 1])

====
